---- MODULE Spec2Model ----
(***************************************************************************)
(* The two page-snap controllers of the portfolio site:                    *)
(*   "script"  - src/script.js          (theme toggle + navigation)        *)
(*   "part000" - src/unnamed/part_000   (navigation, re-init on theme)     *)
(* One behaviour runs one of the two scripts in one page.  Timeouts and    *)
(* animation frames are pending callbacks that fire in any order the       *)
(* platform allows; callbacks of one kind fire in the order they were set. *)
(***************************************************************************)
EXTENDS Integers, Sequences, FiniteSets, TLC

\* ---------------------------------------------------------------- constants
HEADER_OFFSET == 80
WHEEL_ACCUM_THRESHOLD == 60
SETTLE_REQUIRED_STEPS == 4

\* ------------------------------------------------------------------- bounds
MaxSections == 3      \* section[id] elements in the document
MaxInputs == 2        \* input events (keys, wheel, theme, scroll, ...) in one behaviour
MaxTops == 3          \* sections in a list handed to nearestSectionIndex on its own

\* Every section fills the viewport; the viewport is taller than two header offsets.
SectionHeight == 5 * HEADER_OFFSET

Variants == {"script", "part000"}
StoredValues == {"absent", "light", "dark", "other"}
Behaviors == {"", "smooth", "auto"}
Keys == {"ArrowDown", "PageDown", " ", "ArrowUp", "PageUp", "Home", "End", "Enter"}
DeltaYs == {-90, 30}
\* getBoundingClientRect().top of a section, at equal and unequal distances
\* on both sides of the header offset.
RectTops == {-20, 40, 80, 120, 180}
\* What the document looks like to isOverlayOpen / isTyping / isInsideScrollable
\* when an input event arrives.
DomStates == {"page", "overlay", "typing", "scrollable"}

\* What a handler did with an input event: "blocked" (overlay, typing, inside a
\* scrollable), "other" (not a navigation key), "locked", "repeat", "below"
\* (wheel under the threshold), or the command it gave.
Outcomes == {"none", "blocked", "other", "locked", "repeat", "below",
             "next", "prev", "home", "end"}
\* The step of DOMContentLoaded in script.js says which value initTheme read.
LoadEvent(saved) == [type |-> "load", outcome |-> saved, prevented |-> FALSE]
NoEvent == [type |-> "none", outcome |-> "none", prevented |-> FALSE]

\* wheelSum adds up the deltaY of the wheel events that reached the
\* accumulator.  "listed" starts again at a wheel navigation and when 140 ms
\* pass without such an event; "all" also when a theme switch clears the
\* accumulator (script.js 223, part_000 230).
NoSum == [listed |-> 0, all |-> 0]

VARIABLES
    variant,              \* which of the two scripts the page runs
    domSections,          \* number of section[id] elements in the document
    hasSwitch,            \* the document has a #themeSwitch checkbox
    loaded,               \* DOMContentLoaded has fired
    attached,             \* wheel and keydown listeners really are on window
    resizeBound,          \* the resize listener is on window
    sections, currentIndex,
    locked, lockTimer,
    wheelAccum, wheelResetTimer,
    listenersAttached,
    themeStabilizeTimer,
    jumpTimers,           \* anonymous completion timeouts of jumpToIndex
    stabChains,           \* stabilization chains past their 50 ms timer
    hashTimers,           \* pending hashchange re-syncs
    settleLoops,          \* waitForSettle closures with a pending check
    reinitFrames,         \* hardReInit chains waiting for their frames
    scrollY, smoothTarget,
    scrollBehavior,       \* documentElement.style.scrollBehavior
    bodyLight, stored, checked,
    event,                \* the input event the last step handled, and what it did
    thrown,               \* a handler has thrown
    inputs,               \* input events so far
    wheelSum,             \* deltaY of the accepted wheel events since a reset
    sinceSwitch,          \* the latest input event was a theme switch
    destroyed,            \* destroy() has been called
    budget,               \* input events the behaviour may have
    rectTops,             \* tops of the sections of a call of nearestSectionIndex on its own
    returned              \* what that call returned, -1 before it

vars == <<variant, domSections, hasSwitch, loaded, attached, resizeBound,
          sections, currentIndex, locked, lockTimer, wheelAccum, wheelResetTimer,
          listenersAttached, themeStabilizeTimer, jumpTimers, stabChains,
          hashTimers, settleLoops, reinitFrames, scrollY, smoothTarget,
          scrollBehavior, bodyLight, stored, checked, event, thrown, inputs,
          wheelSum, sinceSwitch, destroyed, budget, rectTops, returned>>

\* The state as one record, so that a handler is a function from state to state.
st == [variant |-> variant, domSections |-> domSections, hasSwitch |-> hasSwitch,
       loaded |-> loaded, attached |-> attached, resizeBound |-> resizeBound,
       sections |-> sections, currentIndex |-> currentIndex,
       locked |-> locked, lockTimer |-> lockTimer,
       wheelAccum |-> wheelAccum, wheelResetTimer |-> wheelResetTimer,
       listenersAttached |-> listenersAttached,
       themeStabilizeTimer |-> themeStabilizeTimer,
       jumpTimers |-> jumpTimers, stabChains |-> stabChains,
       hashTimers |-> hashTimers, settleLoops |-> settleLoops,
       reinitFrames |-> reinitFrames, scrollY |-> scrollY,
       smoothTarget |-> smoothTarget, scrollBehavior |-> scrollBehavior,
       bodyLight |-> bodyLight, stored |-> stored, checked |-> checked,
       event |-> event, thrown |-> thrown, inputs |-> inputs,
       wheelSum |-> wheelSum, sinceSwitch |-> sinceSwitch,
       destroyed |-> destroyed, budget |-> budget,
       rectTops |-> rectTops, returned |-> returned]

Become(r) ==
    \E n \in {r} :
        /\ event' = n.event /\ inputs' = n.inputs
        /\ currentIndex' = n.currentIndex /\ sections' = n.sections
        /\ locked' = n.locked /\ lockTimer' = n.lockTimer
        /\ wheelAccum' = n.wheelAccum /\ wheelResetTimer' = n.wheelResetTimer
        /\ scrollY' = n.scrollY /\ smoothTarget' = n.smoothTarget
        /\ jumpTimers' = n.jumpTimers /\ stabChains' = n.stabChains
        /\ hashTimers' = n.hashTimers /\ settleLoops' = n.settleLoops
        /\ reinitFrames' = n.reinitFrames /\ scrollBehavior' = n.scrollBehavior
        /\ themeStabilizeTimer' = n.themeStabilizeTimer
        /\ listenersAttached' = n.listenersAttached
        /\ attached' = n.attached /\ resizeBound' = n.resizeBound
        /\ bodyLight' = n.bodyLight /\ stored' = n.stored /\ checked' = n.checked
        /\ thrown' = n.thrown /\ loaded' = n.loaded
        /\ wheelSum' = n.wheelSum /\ sinceSwitch' = n.sinceSwitch
        /\ destroyed' = n.destroyed /\ budget' = n.budget
        /\ rectTops' = n.rectTops /\ returned' = n.returned
        /\ variant' = n.variant /\ domSections' = n.domSections
        /\ hasSwitch' = n.hasSwitch

\* ------------------------------------------------------------ the document
Abs(x) == IF x < 0 THEN -x ELSE x
Max(a, b) == IF a > b THEN a ELSE b
Min(a, b) == IF a < b THEN a ELSE b

\* getBoundingClientRect().top of the section with document index id (1-based).
RectTop(id, y) == (id - 1) * SectionHeight - y

MaxScroll(s) == IF s.domSections = 0 THEN 0 ELSE (s.domSections - 1) * SectionHeight
ScrollClamp(s, top) == Max(0, Min(MaxScroll(s), top))

\* The scroll offsets at which a section sits where the script puts it.
Positions(s) ==
    IF s.domSections = 0 THEN {0}
    ELSE { ScrollClamp(s, (id - 1) * SectionHeight
                          - (IF s.variant = "script" THEN HEADER_OFFSET ELSE 0))
           : id \in 1..s.domSections }

\* ------------------------------------------------------- shared with both
getSections(s) == [i \in 1..s.domSections |-> i]

\* clamp without its upper bound.
clampNoUpper(n, min, max) == Max(min, n)

clamp(n, min, max) == Max(min, Min(max, n))

isOverlayOpen(e) == e.dom = "overlay"
\* isTyping that never recognises the focused element.
isTypingNever(e) == FALSE

isTyping(e) == e.dom = "typing"
isInsideScrollable(e) == e.dom = "scrollable"

\* The forEach of nearestSectionIndex over the tops of the sections; a
\* negative bestDist stands for Infinity.
RECURSIVE nearestFromLast(_, _, _, _)
\* The forEach with <= in place of <: a later section at the same distance wins.
nearestFromLast(tops, idx, bestIdx, bestDist) ==
    IF idx >= Len(tops) THEN bestIdx
    ELSE LET dist == Abs(tops[idx + 1] - HEADER_OFFSET)
         IN IF bestDist < 0 \/ dist <= bestDist
            THEN nearestFromLast(tops, idx + 1, idx, dist)
            ELSE nearestFromLast(tops, idx + 1, bestIdx, bestDist)

RECURSIVE nearestFrom(_, _, _, _)
nearestFrom(tops, idx, bestIdx, bestDist) ==
    IF idx >= Len(tops) THEN bestIdx
    ELSE LET dist == Abs(tops[idx + 1] - HEADER_OFFSET)
         IN IF bestDist < 0 \/ dist < bestDist
            THEN nearestFrom(tops, idx + 1, idx, dist)
            ELSE nearestFrom(tops, idx + 1, bestIdx, bestDist)

nearestOf(tops) == nearestFrom(tops, 0, 0, -1)

Tops(secs, y) == [i \in 1..Len(secs) |-> RectTop(secs[i], y)]

nearestSectionIndex(s) == nearestOf(Tops(s.sections, s.scrollY))

syncState(s) ==
    LET s1 == [s EXCEPT !.sections = getSections(s)]
    IN IF Len(s1.sections) = 0 THEN s1
       ELSE [s1 EXCEPT !.currentIndex = nearestSectionIndex(s1)]

lockInput(s) == [s EXCEPT !.locked = TRUE, !.lockTimer = TRUE]

unlockInput(s) == [s EXCEPT !.locked = FALSE, !.lockTimer = FALSE]

attachListeners(s) ==
    IF s.listenersAttached THEN s
    ELSE [s EXCEPT !.attached = TRUE, !.listenersAttached = TRUE]

detachListeners(s) ==
    IF ~s.listenersAttached THEN s
    ELSE [s EXCEPT !.attached = FALSE, !.listenersAttached = FALSE]

preventDefault(s) == [s EXCEPT !.event.prevented = TRUE]

\* window.scrollTo / scrollIntoView: a smooth scroll is an animation that
\* arrives later; any other scroll lands at once.  Either aborts a smooth
\* scroll that is under way.
scrollTo(s, top, smooth) ==
    LET y == ScrollClamp(s, top)
    IN IF smooth /\ y # s.scrollY
       THEN [s EXCEPT !.smoothTarget = <<y>>]
       ELSE [s EXCEPT !.scrollY = y, !.smoothTarget = <<>>]

\* ------------------------------------------------------------- script.js
clearTimers(s) == [s EXCEPT !.lockTimer = FALSE, !.wheelResetTimer = FALSE]

\* The timeout jumpToIndex sets for its own completion has no handle: it is
\* never cleared.  "latest" is the one of the navigation that locked last,
\* "earlier" counts those of navigations before it.
addJumpTimer(s, behavior) ==
    [s EXCEPT !.jumpTimers =
        [latest |-> behavior,
         earlier |-> @.earlier + (IF @.latest = "none" THEN 0 ELSE 1)]]

\* jumpToIndex without "if (!sections.length) return".
jumpToIndexUnguarded(s, idx, behavior) ==
    LET s1 == [s EXCEPT !.currentIndex = nearestSectionIndex(s)]
        s2 == [s1 EXCEPT !.currentIndex = clamp(idx, 0, Len(s.sections) - 1)]
    IN IF s2.currentIndex \notin 0..(Len(s2.sections) - 1)
       THEN [s2 EXCEPT !.thrown = TRUE]
       ELSE LET targetTop == s2.scrollY
                             + RectTop(s2.sections[s2.currentIndex + 1], s2.scrollY)
                             - HEADER_OFFSET
                s3 == lockInput(s2)
                smooth == behavior = "smooth"
                          \/ (behavior = "auto" /\ s2.scrollBehavior = "smooth")
                s4 == scrollTo(s3, targetTop, smooth)
            IN addJumpTimer(s4, behavior)

jumpToIndex(s, idx, behavior) ==
    IF Len(s.sections) = 0 THEN s
    ELSE LET s1 == [s EXCEPT !.currentIndex = nearestSectionIndex(s)]
             s2 == [s1 EXCEPT !.currentIndex = clamp(idx, 0, Len(s.sections) - 1)]
         IN IF s2.currentIndex \notin 0..(Len(s2.sections) - 1)
            THEN [s2 EXCEPT !.thrown = TRUE]
            ELSE LET targetTop == s2.scrollY
                                  + RectTop(s2.sections[s2.currentIndex + 1], s2.scrollY)
                                  - HEADER_OFFSET
                     s3 == lockInput(s2)
                     smooth == behavior = "smooth"
                               \/ (behavior = "auto" /\ s2.scrollBehavior = "smooth")
                     s4 == scrollTo(s3, targetTop, smooth)
                 IN addJumpTimer(s4, behavior)

stabilizeAfterThemeSwitch(s) == [s EXCEPT !.themeStabilizeTimer = TRUE]

\* applyTheme that leaves the checkbox as it is.
applyThemeKeepSwitch(s, mode) ==
    stabilizeAfterThemeSwitch([s EXCEPT !.bodyLight = (mode = "light"), !.stored = mode])

applyTheme(s, mode) ==
    LET s1 == [s EXCEPT !.bodyLight = (mode = "light"), !.stored = mode]
        s2 == IF s1.hasSwitch THEN [s1 EXCEPT !.checked = (mode = "light")] ELSE s1
    IN stabilizeAfterThemeSwitch(s2)

\* The change listener of initTheme.
onThemeChange(s) == applyTheme(s, IF s.checked THEN "light" ELSE "dark")

\* initTheme that applies whatever value is stored.
initThemeAsStored(s) ==
    LET saved == s.stored
    IN applyTheme([s EXCEPT !.event = LoadEvent(saved)],
                  IF saved = "absent" THEN "dark" ELSE saved)

initTheme(s) ==
    LET saved == s.stored
    IN applyTheme([s EXCEPT !.event = LoadEvent(saved)],
                  IF saved = "light" THEN "light" ELSE "dark")

initScroll(s) == [attachListeners(syncState(s)) EXCEPT !.resizeBound = TRUE]

destroy(s) ==
    LET s1 == clearTimers(detachListeners(s))
    IN [s1 EXCEPT !.resizeBound = FALSE, !.themeStabilizeTimer = FALSE,
                  !.destroyed = TRUE]

\* The 50 ms callback of stabilizeAfterThemeSwitch, up to its first
\* requestAnimationFrame.
stabilizeTimeout(s) ==
    LET s1 == unlockInput([clearTimers(s) EXCEPT !.wheelAccum = 0, !.wheelSum.all = 0])
        prevBehavior == s1.scrollBehavior
    IN [s1 EXCEPT !.themeStabilizeTimer = FALSE,
                  !.scrollBehavior = "auto",
                  !.stabChains = Append(@, [stage |-> "frame1", prev |-> prevBehavior])]

\* The inner animation frame: re-sync, snap, and set the 220 ms restore.
stabilizeFrame2(s, i) ==
    LET s1 == syncState(s)
        s2 == jumpToIndex(s1, nearestSectionIndex(s1), "auto")
    IN [s2 EXCEPT !.stabChains[i].stage = "restore"]

RemoveAt(seq, i) == [j \in 1..(Len(seq) - 1) |-> IF j < i THEN seq[j] ELSE seq[j + 1]]

stabilizeRestore(s, i) ==
    LET s1 == [s EXCEPT !.scrollBehavior = s.stabChains[i].prev]
        s2 == unlockInput(syncState(s1))
    IN [s2 EXCEPT !.stabChains = RemoveAt(@, i)]

\* The completion timeout of jumpToIndex.
jumpTimeout(s) == unlockInput(syncState(s))

\* ------------------------------------------------------------- part_000
settleStopper(s) == \E i \in 1..Len(s.settleLoops) : s.settleLoops[i].held

\* Calling settleStopper() sets the flag of the closure it belongs to; a
\* cancelled closure never reads its lastY and stableSteps again.
Cancelled == [lastY |-> 0, stableSteps |-> 0, cancelled |-> TRUE, held |-> FALSE]

callSettleStopper(s) ==
    [s EXCEPT !.settleLoops =
        [i \in 1..Len(@) |-> IF @[i].held THEN Cancelled ELSE @[i]]]

dropSettleStopper(s) ==
    [s EXCEPT !.settleLoops = [i \in 1..Len(@) |-> [@[i] EXCEPT !.held = FALSE]]]

clearAllTimers(s) ==
    LET s1 == [s EXCEPT !.lockTimer = FALSE, !.wheelResetTimer = FALSE]
    IN IF settleStopper(s1) THEN callSettleStopper(s1) ELSE s1

waitForSettle(s) ==
    LET s1 == dropSettleStopper(s)
    IN [s1 EXCEPT !.settleLoops =
           Append(@, [lastY |-> s.scrollY, stableSteps |-> 0,
                      cancelled |-> FALSE, held |-> TRUE])]

scrollToIndex(s, idx) ==
    IF Len(s.sections) = 0 THEN s
    ELSE LET s1 == [s EXCEPT !.currentIndex = nearestSectionIndex(s)]
             s2 == [s1 EXCEPT !.currentIndex = clamp(idx, 0, Len(s.sections) - 1)]
         IN IF s2.currentIndex \notin 0..(Len(s2.sections) - 1)
            THEN [s2 EXCEPT !.thrown = TRUE]
            ELSE LET s3 == lockInput(s2)
                     \* scrollIntoView({block: "start"}): the section's top at the viewport's top
                     s4 == scrollTo(s3, s3.scrollY
                                        + RectTop(s3.sections[s3.currentIndex + 1], s3.scrollY),
                                    TRUE)
                 IN waitForSettle(s4)

\* One run of check() of the loop at position i.
settleCheck(s, i) ==
    LET l == s.settleLoops[i]
    IN IF l.cancelled THEN [s EXCEPT !.settleLoops = RemoveAt(@, i)]
       ELSE LET y == s.scrollY
                stableSteps == IF Abs(y - l.lastY) < 1 THEN l.stableSteps + 1 ELSE 0
            IN IF stableSteps >= SETTLE_REQUIRED_STEPS
               THEN LET s1 == [s EXCEPT !.currentIndex = nearestSectionIndex(s)]
                        s2 == dropSettleStopper(unlockInput(s1))
                    IN [s2 EXCEPT !.settleLoops = RemoveAt(@, i)]
               ELSE [s EXCEPT !.settleLoops[i] =
                        [@ EXCEPT !.lastY = y, !.stableSteps = stableSteps]]

\* hardReInit without "locked = false".
hardReInitKeepLock(s) ==
    LET s1 == clearAllTimers(detachListeners(s))
    IN [s1 EXCEPT !.wheelAccum = 0, !.wheelSum.all = 0,
                  !.reinitFrames = [@ EXCEPT !.first = @ + 1]]

hardReInit(s) ==
    LET s1 == clearAllTimers(detachListeners(s))
    IN [s1 EXCEPT !.locked = FALSE, !.wheelAccum = 0, !.wheelSum.all = 0,
                  !.reinitFrames = [@ EXCEPT !.first = @ + 1]]

\* The inner animation frame of hardReInit.
reinitFrame2(s) == attachListeners(syncState(s))

\* ------------------------------------------------------- input handlers
navigate(s, idx) ==
    IF s.variant = "script" THEN jumpToIndex(s, idx, "smooth") ELSE scrollToIndex(s, idx)

did(s, outcome) == [s EXCEPT !.event.outcome = outcome]

next(s) == navigate(did(s, "next"), s.currentIndex + 1)
prev(s) == navigate(did(s, "prev"), s.currentIndex - 1)

\* onWheel that still returns when the accumulator is exactly at the threshold.
onWheelAboveOnly(s, e) ==
    LET s0 == [s EXCEPT !.event = [type |-> "wheel", outcome |-> "blocked",
                                    prevented |-> FALSE]]
    IN IF isOverlayOpen(e) THEN s0
       ELSE IF isTyping(e) THEN s0
       ELSE IF isInsideScrollable(e) THEN s0
       ELSE IF s0.locked THEN did(preventDefault(s0), "locked")
       ELSE LET s1 == [s0 EXCEPT !.wheelAccum = @ + e.deltaY, !.wheelResetTimer = TRUE,
                                 !.wheelSum = [listed |-> @.listed + e.deltaY,
                                               all |-> @.all + e.deltaY]]
            IN IF Abs(s1.wheelAccum) <= WHEEL_ACCUM_THRESHOLD THEN did(s1, "below")
               ELSE LET s2 == preventDefault(s1)
                        dir == IF s2.wheelAccum > 0 THEN 1 ELSE -1
                        s3 == [s2 EXCEPT !.wheelAccum = 0, !.wheelSum = NoSum]
                    IN IF dir = 1 THEN next(s3) ELSE prev(s3)

\* onWheel that still adds the delta of an event it receives while locked.
onWheelCountsLocked(s, e) ==
    LET s0 == [s EXCEPT !.event = [type |-> "wheel", outcome |-> "blocked",
                                    prevented |-> FALSE]]
    IN IF isOverlayOpen(e) THEN s0
       ELSE IF isTyping(e) THEN s0
       ELSE IF isInsideScrollable(e) THEN s0
       ELSE IF s0.locked
            THEN did(preventDefault([s0 EXCEPT !.wheelAccum = @ + e.deltaY]), "locked")
       ELSE LET s1 == [s0 EXCEPT !.wheelAccum = @ + e.deltaY, !.wheelResetTimer = TRUE,
                                 !.wheelSum = [listed |-> @.listed + e.deltaY,
                                               all |-> @.all + e.deltaY]]
            IN IF Abs(s1.wheelAccum) < WHEEL_ACCUM_THRESHOLD THEN did(s1, "below")
               ELSE LET s2 == preventDefault(s1)
                        dir == IF s2.wheelAccum > 0 THEN 1 ELSE -1
                        s3 == [s2 EXCEPT !.wheelAccum = 0, !.wheelSum = NoSum]
                    IN IF dir = 1 THEN next(s3) ELSE prev(s3)

onWheel(s, e) ==
    LET s0 == [s EXCEPT !.event = [type |-> "wheel", outcome |-> "blocked",
                                    prevented |-> FALSE]]
    IN IF isOverlayOpen(e) THEN s0
       ELSE IF isTyping(e) THEN s0
       ELSE IF isInsideScrollable(e) THEN s0
       ELSE IF s0.locked THEN did(preventDefault(s0), "locked")
       ELSE LET s1 == [s0 EXCEPT !.wheelAccum = @ + e.deltaY, !.wheelResetTimer = TRUE,
                                 !.wheelSum = [listed |-> @.listed + e.deltaY,
                                               all |-> @.all + e.deltaY]]
            IN IF Abs(s1.wheelAccum) < WHEEL_ACCUM_THRESHOLD THEN did(s1, "below")
               ELSE LET s2 == preventDefault(s1)
                        dir == IF s2.wheelAccum > 0 THEN 1 ELSE -1
                        s3 == [s2 EXCEPT !.wheelAccum = 0, !.wheelSum = NoSum]
                    IN IF dir = 1 THEN next(s3) ELSE prev(s3)

nextKeys == {"ArrowDown", "PageDown", " "}
prevKeys == {"ArrowUp", "PageUp"}

\* onKeyDown without the "if (e.repeat) return".
onKeyDownRepeats(s, e) ==
    LET s0 == [s EXCEPT !.event = [type |-> "keydown", outcome |-> "blocked",
                                    prevented |-> FALSE]]
        k == e.key
    IN IF isOverlayOpen(e) THEN s0
       ELSE IF isTyping(e) THEN s0
       ELSE IF k \notin (nextKeys \cup prevKeys \cup {"Home", "End"}) THEN did(s0, "other")
       ELSE LET s1 == preventDefault(s0)
            IN IF s1.locked THEN did(s1, "locked")
               ELSE IF k \in nextKeys THEN next(s1)
               ELSE IF k \in prevKeys THEN prev(s1)
               ELSE IF k = "Home" THEN navigate(did(s1, "home"), 0)
               ELSE navigate(did(s1, "end"), Len(s1.sections) - 1)

onKeyDown(s, e) ==
    LET s0 == [s EXCEPT !.event = [type |-> "keydown", outcome |-> "blocked",
                                    prevented |-> FALSE]]
        k == e.key
    IN IF isOverlayOpen(e) THEN s0
       ELSE IF isTyping(e) THEN s0
       ELSE IF k \notin (nextKeys \cup prevKeys \cup {"Home", "End"}) THEN did(s0, "other")
       ELSE LET s1 == preventDefault(s0)
            IN IF s1.locked THEN did(s1, "locked")
               ELSE IF e.repeat THEN did(s1, "repeat")
               ELSE IF k \in nextKeys THEN next(s1)
               ELSE IF k \in prevKeys THEN prev(s1)
               ELSE IF k = "Home" THEN navigate(did(s1, "home"), 0)
               ELSE navigate(did(s1, "end"), Len(s1.sections) - 1)

\* ---------------------------------------------------------------- actions
\* The page before DOMContentLoaded, running one of the scripts vs, with b
\* input events to come.
Start(vs, b) ==
    /\ variant \in vs
    /\ budget = b
    /\ domSections \in {0, MaxSections}
    \* part_000 reads #themeSwitch only to call hardReInit on its change as well
    /\ hasSwitch \in IF variant = "script" THEN BOOLEAN ELSE {TRUE}
    /\ loaded = FALSE /\ attached = FALSE /\ resizeBound = FALSE
    /\ sections = <<>> /\ currentIndex = 0
    /\ locked = FALSE /\ lockTimer = FALSE
    /\ wheelAccum = 0 /\ wheelResetTimer = FALSE
    /\ listenersAttached = FALSE
    /\ themeStabilizeTimer = FALSE
    /\ jumpTimers = [latest |-> "none", earlier |-> 0]
    /\ stabChains = <<>>
    /\ hashTimers = 0
    /\ settleLoops = <<>>
    /\ reinitFrames = [first |-> 0, second |-> 0]
    /\ scrollY = 0 /\ smoothTarget = <<>>
    /\ scrollBehavior = ""
    /\ bodyLight \in IF variant = "script" THEN BOOLEAN ELSE {FALSE}
    /\ checked = FALSE
    /\ stored \in IF variant = "script" THEN StoredValues ELSE {"absent"}
    /\ event = NoEvent
    /\ thrown = FALSE
    /\ inputs = 0
    /\ wheelSum = NoSum
    /\ sinceSwitch = FALSE
    /\ destroyed = FALSE

Init == Start(Variants, MaxInputs) /\ rectTops = <<>> /\ returned = -1

\* part_000 alone, one input event deeper.
PartInit == Start({"part000"}, MaxInputs + 1) /\ rectTops = <<>> /\ returned = -1

\* nearestSectionIndex on its own: any list of up to MaxTops tops, no page.
TopLists == UNION {[1..n -> RectTops] : n \in 0..MaxTops}

NearestInit ==
    /\ Start({"script"}, 0)
    /\ domSections = 0 /\ ~hasSwitch /\ ~bodyLight /\ stored = "absent"
    /\ rectTops \in TopLists
    /\ returned = -1

\* Input(r): the step of an input event, r the state its handler leaves.  A
\* behaviour has at most MaxInputs of them.  Wheel and key handlers say in
\* "event" what they did; every other step clears it.
\* Run(r): the step of a timeout or an animation frame.
Input(r) == inputs < budget /\ Become([r EXCEPT !.inputs = @ + 1, !.sinceSwitch = FALSE])
Switch(r) == inputs < budget /\ Become([r EXCEPT !.inputs = @ + 1, !.sinceSwitch = TRUE])
Quiet(r) == [r EXCEPT !.event = NoEvent]
Run(r) == Become(Quiet(r))

IsScript == variant = "script"
IsPart == variant = "part000"

\* script.js 270-273
DOMContentLoaded ==
    /\ IsScript /\ ~loaded
    /\ Become(initTheme(initScroll([st EXCEPT !.loaded = TRUE])))

\* part_000 241-269
DOMContentLoadedPart ==
    /\ IsPart /\ ~loaded
    /\ Run([attachListeners(syncState(st)) EXCEPT !.loaded = TRUE, !.resizeBound = TRUE])

\* window.__portfolioController.destroy(), called from outside at any time.
Destroy == IsScript /\ Input(Quiet(destroy(st)))

\* The user flips #themeSwitch.
ToggleTheme ==
    /\ IsScript /\ loaded /\ hasSwitch
    /\ Switch(Quiet(onThemeChange([st EXCEPT !.checked = ~checked])))

\* part_000: the class of body changes (MutationObserver), or #themeSwitch does.
ThemeMutation ==
    /\ IsPart /\ loaded
    /\ Switch(Quiet(hardReInit(st)))

SwitchChange ==
    /\ IsPart /\ loaded /\ hasSwitch
    /\ Switch(Quiet(hardReInit(st)))

KeyDownOf(k, rep, d) ==
    attached /\ Input(onKeyDown(st, [key |-> k, repeat |-> rep, dom |-> d]))

KeyDown == \E k \in Keys, rep \in BOOLEAN, d \in DomStates \ {"scrollable"} :
              KeyDownOf(k, rep, d)

WheelOf(dy, d) ==
    attached /\ Input(onWheel(st, [deltaY |-> dy, dom |-> d]))

Wheel == \E dy \in DeltaYs, d \in DomStates : WheelOf(dy, d)

Resize == resizeBound /\ Input(Quiet(syncState(st)))

\* A navbar hash link: the browser jumps to the anchor, the script re-syncs later.
HashChange ==
    /\ loaded
    /\ \E y \in Positions(st) :
          Input(Quiet([st EXCEPT !.scrollY = y, !.smoothTarget = <<>>,
                                 !.hashTimers = @ + 1]))

HashTimeout ==
    /\ hashTimers > 0
    /\ Run(syncState([st EXCEPT !.hashTimers = @ - 1]))

\* The callback of lockInput's timeout.
LockTimeout ==
    /\ lockTimer
    /\ Run([st EXCEPT !.locked = FALSE, !.lockTimer = FALSE])

WheelResetTimeout ==
    /\ wheelResetTimer
    /\ Run([st EXCEPT !.wheelAccum = 0, !.wheelResetTimer = FALSE, !.wheelSum = NoSum])

\* 140 ms pass without a wheel event after the timeout above was cleared.
WheelIdle ==
    /\ ~wheelResetTimer /\ wheelSum # NoSum
    /\ Run([st EXCEPT !.wheelSum = NoSum])

JumpTimeoutLatest ==
    /\ jumpTimers.latest # "none"
    /\ Run(jumpTimeout([st EXCEPT !.jumpTimers.latest = "none"]))

JumpTimeoutEarlier ==
    /\ jumpTimers.earlier > 0
    /\ Run(jumpTimeout([st EXCEPT !.jumpTimers.earlier = @ - 1]))

StabilizeTimeout == themeStabilizeTimer /\ Run(stabilizeTimeout(st))

\* Callbacks of one kind run in the order they were set: a chain moves only
\* when no chain before it waits at the same stage.
CanMove(i) == \A j \in 1..(i - 1) : stabChains[j].stage # stabChains[i].stage

StabilizeFrame1 ==
    \E i \in 1..Len(stabChains) :
        /\ stabChains[i].stage = "frame1" /\ CanMove(i)
        /\ Run([st EXCEPT !.stabChains[i].stage = "frame2"])

StabilizeFrame2 ==
    \E i \in 1..Len(stabChains) :
        /\ stabChains[i].stage = "frame2" /\ CanMove(i)
        /\ Run(stabilizeFrame2(st, i))

StabilizeRestore ==
    \E i \in 1..Len(stabChains) :
        /\ stabChains[i].stage = "restore" /\ CanMove(i)
        /\ Run(stabilizeRestore(st, i))

SettleCheck == \E i \in 1..Len(settleLoops) : Run(settleCheck(st, i))

ReinitFrame1 ==
    /\ reinitFrames.first > 0
    /\ Run([st EXCEPT !.reinitFrames = [first |-> @.first - 1, second |-> @.second + 1]])

ReinitFrame2 ==
    /\ reinitFrames.second > 0
    /\ Run(reinitFrame2([st EXCEPT !.reinitFrames.second = @ - 1]))

\* The smooth scroll under way arrives.
ScrollArrive ==
    /\ smoothTarget # <<>>
    /\ Run([st EXCEPT !.scrollY = smoothTarget[1], !.smoothTarget = <<>>])

\* The user scrolls the page natively (scrollbar, touch, a wheel event the
\* script did not prevent).
NativeScroll ==
    \E y \in Positions(st) \ {scrollY} :
        Input(Quiet([st EXCEPT !.scrollY = y, !.smoothTarget = <<>>]))

Next ==
    \/ DOMContentLoaded \/ DOMContentLoadedPart \/ Destroy
    \/ ToggleTheme \/ ThemeMutation \/ SwitchChange
    \/ KeyDown \/ Wheel \/ Resize \/ HashChange \/ HashTimeout
    \/ LockTimeout \/ WheelResetTimeout \/ WheelIdle
    \/ JumpTimeoutLatest \/ JumpTimeoutEarlier
    \/ StabilizeTimeout \/ StabilizeFrame1 \/ StabilizeFrame2 \/ StabilizeRestore
    \/ SettleCheck \/ ReinitFrame1 \/ ReinitFrame2
    \/ ScrollArrive \/ NativeScroll

Spec == Init /\ [][Next]_vars

\* The listeners and callbacks of part_000.
NextPart ==
    \/ DOMContentLoadedPart \/ ThemeMutation \/ SwitchChange
    \/ KeyDown \/ Wheel \/ Resize \/ HashChange \/ HashTimeout
    \/ LockTimeout \/ WheelResetTimeout \/ WheelIdle
    \/ SettleCheck \/ ReinitFrame1 \/ ReinitFrame2
    \/ ScrollArrive \/ NativeScroll

PartSpec == PartInit /\ [][NextPart]_vars

\* One call of nearestSectionIndex over the tops in rectTops.
NearestCall == returned = -1 /\ Become([st EXCEPT !.returned = nearestOf(rectTops)])

NearestSpec == NearestInit /\ [][NearestCall]_vars

\* Timeouts fire: the MAX_LOCK_MS timeout of lockInput and the completion
\* timeout of the latest jumpToIndex are not postponed for ever.  The
\* fairness of the second is WF_vars(JumpTimeoutLatest) written out (WF_v(A)
\* is []<>~ENABLED <<A>>_v \/ []<><<A>>_v): the timeout is enabled exactly
\* while it is pending, and firing it always changes jumpTimers.
JumpTimeoutFair ==
    []<>(jumpTimers.latest = "none") \/ []<><<JumpTimeoutLatest>>_vars

FairSpec == Spec /\ WF_vars(LockTimeout) /\ JumpTimeoutFair

\* ------------------------------------------------------------------ claims
HasSections == Len(sections) > 0
LastIndex == Len(sections) - 1

\* C1: in script.js, once the page has loaded, body has class "light" iff
\* the stored themeMode is "light" iff the checkbox (when there is one) is
\* checked, after any toggles; and a toggle of the checkbox stores the mode it
\* switched to.
C1_ThemeAgrees ==
    /\ [](IsScript /\ loaded =>
            /\ bodyLight <=> (stored = "light")
            /\ hasSwitch => (checked <=> bodyLight))
    /\ [][IsScript /\ loaded /\ checked' # checked =>
            stored' = (IF checked' THEN "light" ELSE "dark")]_vars

\* C1 witness: the user has switched to light and the three agree on it.
C1_Toggled ==
    /\ IsScript /\ loaded /\ hasSwitch /\ sinceSwitch
    /\ checked /\ bodyLight /\ stored = "light"

\* C2: in both scripts currentIndex is an index of the section list whenever
\* the list is not empty, no handler throws, next() on the last section
\* keeps the last section as target and prev() on the first keeps the first.
C2_IndexInRange ==
    /\ [](~thrown /\ (HasSections => currentIndex \in 0..LastIndex))
    /\ [][/\ (event'.outcome = "next" /\ HasSections /\ currentIndex = LastIndex)
               => (currentIndex' = LastIndex /\ ~thrown')
          /\ (event'.outcome = "prev" /\ HasSections /\ currentIndex = 0)
               => (currentIndex' = 0 /\ ~thrown')]_vars

\* C2 witness: next() was called with the page resting on the last section,
\* and the target is that section.
C2_NextOnLast ==
    /\ event.outcome = "next" /\ HasSections /\ currentIndex = LastIndex
    /\ locked /\ smoothTarget = <<>> /\ scrollY = MaxScroll(st) - (IF IsScript THEN HEADER_OFFSET ELSE 0)

\* A navigation is in flight from its scroll call until its own completion:
\* in script.js the completion timeout of its jumpToIndex, in part_000 the
\* settle loop that settleStopper belongs to (the last one started).
InFlight == IF IsScript THEN jumpTimers.latest = "smooth" ELSE settleStopper(st)

OwnCompletion ==
    IF IsScript THEN jumpTimers'.latest = "none"
    ELSE /\ Len(settleLoops') = Len(settleLoops) - 1
         /\ \A i \in 1..Len(settleLoops') : settleLoops'[i] = settleLoops[i]

StartsNavigation ==
    IF IsScript THEN jumpTimers'.earlier > jumpTimers.earlier
    ELSE Len(settleLoops') > Len(settleLoops)

\* C3: while a navigation is in flight its lock is released only by its own
\* completion or its own MAX_LOCK_MS timeout, never by a callback of an
\* earlier navigation or of a theme stabilization, and no other navigation
\* or stabilization jump starts.
C3_NoOverlap ==
    [][InFlight =>
          /\ (locked /\ ~locked') => (OwnCompletion \/ LockTimeout)
          /\ ~StartsNavigation]_vars

\* A lock that is held has something pending that releases it: its own
\* MAX_LOCK_MS timeout or, in script.js, the completion timeout of the
\* jumpToIndex that took it.
LockClearerPending == lockTimer \/ (IsScript /\ jumpTimers.latest # "none")

\* C4: in both scripts a lock that is taken is released again, whatever
\* clears timers in between (theme switches, destroy) and even if the scroll
\* never settles; no state holds the lock with nothing pending to release it.
C4_LockReleased ==
    /\ [](locked => LockClearerPending)
    /\ (locked ~> ~locked)

\* C4 witness: part_000 released the lock by its MAX_LOCK_MS timeout while
\* the settle loop of the navigation was still waiting for the scroll to rest.
C4_ReleasedUnsettled ==
    /\ IsPart /\ ~locked /\ ~lockTimer
    /\ \E i \in 1..Len(settleLoops) : settleLoops[i].held /\ ~settleLoops[i].cancelled

NavKeys == nextKeys \cup prevKeys \cup {"Home", "End"}

\* C5: a keydown of a navigation key with repeat = true starts no
\* navigation and leaves currentIndex, the lock and the scroll as they are,
\* locked or not: a keydown step that changes one of them is not the step of
\* a repeated navigation key.
C5_RepeatIgnored ==
    [][(/\ event'.type = "keydown"
        /\ ~UNCHANGED <<currentIndex, locked, lockTimer, jumpTimers, settleLoops,
                        scrollY, smoothTarget>>)
       => ~\E k \in NavKeys, d \in DomStates \ {"scrollable"} : KeyDownOf(k, TRUE, d)]_vars

\* C5 witness: a repeated navigation key arrived with the lock released and
\* was dropped at the repeat check.
C5_RepeatDropped ==
    /\ event = [type |-> "keydown", outcome |-> "repeat", prevented |-> TRUE]
    /\ ~locked /\ HasSections

\* What C7 says of one wheel event that reaches the accumulator, "sum" being
\* the deltaY added up since the last reset, this event not yet counted.
WheelContract(sum) ==
    \A dy \in DeltaYs :
        (event'.type = "wheel" /\ ~locked /\ WheelOf(dy, "page")) =>
            LET total == sum + dy
                navigates == event'.outcome \in {"next", "prev"}
            IN /\ navigates <=> (Abs(total) >= WHEEL_ACCUM_THRESHOLD)
               /\ (navigates /\ HasSections) => (locked' /\ event'.prevented)
               /\ ~navigates =>
                     /\ ~event'.prevented
                     /\ UNCHANGED <<currentIndex, locked, lockTimer, jumpTimers,
                                    settleLoops, scrollY, smoothTarget>>
               /\ event'.outcome = "next" => total > 0
               /\ event'.outcome = "prev" => total < 0

\* C7 as written: the accumulator starts again only at a wheel navigation
\* and after 140 ms without an accepted wheel event; an unlocked wheel event
\* navigates iff the deltaY added up since then reaches 60 in absolute value
\* (next for a positive sum, prev for a negative one), an event below the
\* threshold starts nothing and is not default-prevented, and |wheelAccum| < 60
\* after every handler.
C7_WheelThresholdAsListed ==
    /\ [](Abs(wheelAccum) < WHEEL_ACCUM_THRESHOLD)
    /\ [][WheelContract(wheelSum.listed)]_vars

\* C7 amended: the same, with the accumulator also starting again when a
\* theme switch clears it (the 50 ms callback of stabilizeAfterThemeSwitch
\* in script.js, hardReInit in part_000).
C7_WheelThreshold ==
    /\ [](Abs(wheelAccum) < WHEEL_ACCUM_THRESHOLD)
    /\ [][WheelContract(wheelSum.all)]_vars

\* C7 witness: two wheel events of 30 added up to the threshold and the
\* second one navigated to the next section.
C7_WheelNavigated ==
    /\ event = [type |-> "wheel", outcome |-> "next", prevented |-> TRUE]
    /\ locked /\ wheelAccum = 0 /\ HasSections

\* The step default-prevented its event or changed navigation state.
Touched ==
    \/ event'.prevented
    \/ ~UNCHANGED <<currentIndex, locked, wheelAccum, lockTimer, wheelResetTimer,
                    themeStabilizeTimer, jumpTimers, stabChains, hashTimers,
                    settleLoops, reinitFrames, scrollY, smoothTarget>>

\* C8: with the #viewer overlay open or a text field focused, a keydown or
\* wheel event changes neither currentIndex, locked, wheelAccum nor any
\* timer, starts no scroll and is not default-prevented: a key or wheel step
\* that is prevented or changes one of them is not the step of such an event.
C8_BlockedInputIgnored ==
    [][/\ (event'.type = "keydown" /\ Touched) =>
             ~\E k \in Keys, rep \in BOOLEAN, d \in {"overlay", "typing"} :
                   KeyDownOf(k, rep, d)
       /\ (event'.type = "wheel" /\ Touched) =>
             ~\E dy \in DeltaYs, d \in {"overlay", "typing"} : WheelOf(dy, d)]_vars

\* C8 witness: a key event arrived while the overlay was open or a field
\* was focused and the handler returned at once.
C8_KeyBlocked ==
    /\ event = [type |-> "keydown", outcome |-> "blocked", prevented |-> FALSE]
    /\ HasSections /\ ~locked

StabilizationPending ==
    \/ themeStabilizeTimer \/ stabChains # <<>>
    \/ reinitFrames # [first |-> 0, second |-> 0]

\* C6: after a theme switch, once its stabilization has run to the end and
\* the scroll is at rest, currentIndex is the index of the section nearest the
\* header offset, also when the switch came during a smooth navigation.
C6_SyncedAfterSwitch ==
    (sinceSwitch /\ ~StabilizationPending /\ smoothTarget = <<>> /\ HasSections)
        => currentIndex = nearestSectionIndex(st)

PendingCycles == (IF themeStabilizeTimer THEN 1 ELSE 0) + Len(stabChains)

\* C9: in script.js a theme switch cancels the stabilization of an earlier
\* switch wherever it has got to: at most one cycle is pending, and while the
\* timer of a newer switch is pending no earlier cycle moves on.
C9_EarlierCycleCancelled ==
    /\ [](IsScript => PendingCycles <= 1)
    /\ [][(themeStabilizeTimer /\ themeStabilizeTimer') => UNCHANGED stabChains]_vars

\* C10: in script.js the mode applied on load is light exactly when the
\* stored themeMode is "light" (dark for an absent key and for any other
\* value), and from then on the stored value is "light" or "dark".
C10_LoadAppliesStored ==
    IsScript /\ loaded =>
        /\ stored \in {"light", "dark"}
        /\ event.type = "load" =>
              /\ bodyLight <=> (event.outcome = "light")
              /\ (stored = "light") <=> (event.outcome = "light")

\* C10 witness: the page loaded with a stored value that is neither "light"
\* nor "dark", and dark was applied and stored.
C10_LoadedOther ==
    /\ IsScript /\ loaded /\ event = LoadEvent("other")
    /\ ~bodyLight /\ stored = "dark"

\* C11: absent elements make the scripts do nothing, without an error: with
\* no #themeSwitch script.js still applies and stores the theme, and in a
\* document without sections no next, prev, Home, End, wheel navigation or
\* stabilization jump takes the lock, scrolls or changes currentIndex.
C11_AbsentElementsNoOp ==
    /\ [](~thrown)
    /\ []((IsScript /\ loaded /\ ~hasSwitch) =>
            /\ bodyLight <=> (stored = "light")
            /\ stored \in {"light", "dark"})
    /\ [][domSections = 0 =>
            UNCHANGED <<currentIndex, locked, lockTimer, scrollY, smoothTarget,
                        jumpTimers, settleLoops>>]_vars

\* C11 witness: next() was called in a document without sections and
\* nothing was locked or scrolled.
C11_NextWithoutSections ==
    /\ loaded /\ domSections = 0 /\ event.outcome = "next"
    /\ ~locked /\ currentIndex = 0 /\ smoothTarget = <<>>

\* C12: next() targets the section after, and prev() the section before,
\* the section that is nearest the header offset when the command is given
\* (clamped to the list), also after a native scroll that no syncState
\* followed.
C12_NavigatesFromViewport ==
    [][HasSections =>
          /\ event'.outcome = "next" =>
                currentIndex' = clamp(nearestSectionIndex(st) + 1, 0, LastIndex)
          /\ event'.outcome = "prev" =>
                currentIndex' = clamp(nearestSectionIndex(st) - 1, 0, LastIndex)]_vars

\* A step of script.js in which jumpToIndex got as far as its scroll call.
JumpStarted ==
    \/ jumpTimers'.earlier > jumpTimers.earlier
    \/ jumpTimers'.latest \notin {"none", jumpTimers.latest}

\* C13: in script.js, once destroy() has been called (before or after
\* DOMContentLoaded) the instance has no wheel or keydown listener, attaches
\* none later, and no event or pending timer makes it change currentIndex or
\* the lock or start a scroll.
C13_DestroyedStaysDead ==
    /\ [](destroyed => ~attached)
    /\ [][destroyed => (UNCHANGED <<currentIndex, locked>> /\ ~JumpStarted)]_vars

\* The settle loops that have not been cancelled: their next check reads the
\* scroll position and may unlock and write currentIndex.
LiveLoops == {i \in 1..Len(settleLoops) : ~settleLoops[i].cancelled}

\* C15: in part_000 at most one settle loop is live at any time, and a
\* live loop is the one settleStopper cancels.
C15_OneSettleLoop ==
    IsPart => /\ Cardinality(LiveLoops) <= 1
              /\ \A i \in LiveLoops : settleLoops[i].held

\* C14: in part_000 every hardReInit is a full reset: right after it the
\* lock is released, wheelAccum is 0, no lock timeout, wheel-reset timeout or
\* settle loop is left that can still change state, and the handlers are
\* detached; and listenersAttached always says whether the handlers are on
\* window, however many hardReInit calls overlap.
C14_FullReset ==
    /\ [](IsPart => listenersAttached = attached)
    /\ [][(IsPart /\ inputs' > inputs /\ sinceSwitch') =>
            /\ ~locked' /\ wheelAccum' = 0
            /\ ~lockTimer' /\ ~wheelResetTimer'
            /\ \A i \in 1..Len(settleLoops') : settleLoops'[i].cancelled
            /\ ~attached' /\ ~listenersAttached']_vars

\* C16: in script.js the scroll-behavior override of the stabilization is
\* temporary: once no stabilization callback is pending, the inline
\* scrollBehavior of the document is the one it had before the first theme
\* switch, the empty value.
C16_BehaviorRestored ==
    (IsScript /\ PendingCycles = 0) => scrollBehavior = ""

\* C17: while locked is true, the step of a wheel or keydown event starts no
\* navigation and leaves currentIndex, locked, wheelAccum, the wheel-reset
\* timer and the lock timer as they were; the delta of such a wheel event is
\* added to no sum, so it cannot count toward a later navigation.
C17_LockedInputInert ==
    [][(locked /\ inputs' > inputs /\ event'.type \in {"wheel", "keydown"}) =>
          /\ event'.outcome \notin {"next", "prev", "home", "end"}
          /\ UNCHANGED <<currentIndex, locked, wheelAccum, wheelResetTimer, lockTimer,
                         wheelSum, jumpTimers, settleLoops, scrollY, smoothTarget>>]_vars

\* C17 witness: a wheel event outside overlay, text field and scrollable
\* panel arrived while a navigation held the lock.
C17_WheelWhileLocked ==
    /\ event = [type |-> "wheel", outcome |-> "locked", prevented |-> TRUE]
    /\ locked /\ lockTimer /\ HasSections /\ wheelAccum = 0

\* Distance of section i (counted from 0) of rectTops from the header offset.
TopDist(i) == Abs(rectTops[i + 1] - HEADER_OFFSET)

\* C18: nearestSectionIndex returns 0 for an empty list of sections and, for
\* a non-empty one, an index whose |top - 80| is minimal over all sections,
\* the lowest one when several sections are at that distance.
C18_NearestIsLowestMinimum ==
    returned # -1 =>
        IF Len(rectTops) = 0 THEN returned = 0
        ELSE /\ returned \in 0..(Len(rectTops) - 1)
             /\ \A j \in 0..(Len(rectTops) - 1) : TopDist(returned) <= TopDist(j)
             /\ \A j \in 0..(returned - 1) : TopDist(j) > TopDist(returned)

\* C18 witness: the second and the third section are equally near and
\* nearer than the first; the call returned the second.
C18_TieReturnsLowest ==
    /\ rectTops = <<180, 40, 120>>
    /\ returned = 1
====
